---- MODULE Spec2Model ----
(***************************************************************************)
(* Rent division (src/main.py): a maximum-weight matching of people to     *)
(* rooms, its completion to a sorted allocation, and the envy-freeness     *)
(* linear program over room prices.                                        *)
(*                                                                         *)
(* networkx.max_weight_matching and the cvxpy/ECOS solve are library       *)
(* calls.  The matcher is modelled by its contract: it returns some        *)
(* matching of maximum total weight, as a set of 2-tuples in either        *)
(* direction.  The solver is modelled by its contract on a grid of prices  *)
(* (multiples of 1/PriceDen of a rent unit): under Spec it decides the     *)
(* program (optimal with some feasible point, or infeasible); under        *)
(* SpecAnySolver it may also stop inaccurate or raise.                     *)
(***************************************************************************)
EXTENDS Integers, Sequences, FiniteSets, TLC

VARIABLES valuations, rent, op, alloc, allocation, stdout, status,
          price_rooms, raised, again, first

vars == <<valuations, rent, op, alloc, allocation, stdout, status,
          price_rooms, raised, again, first>>

(***************************************************************************)
(* Bounds of the model: the sizes of the generated matrices, the total of  *)
(* their values, the rents tried, and how far outside 0..rent the solver's *)
(* price grid reaches.                                                     *)
(***************************************************************************)
MaxPeople == 2
MaxRooms == 2
MaxTotal == 3
MaxRent == 2
PriceSlack == 1

(***************************************************************************)
(* Inputs.  A valuation matrix is a sequence of rows; person i is row i+1  *)
(* and room j is column j+1 (Python indexes from 0).                       *)
(***************************************************************************)
RECURSIVE SumSeq(_)
SumSeq(s) == IF s = <<>> THEN 0 ELSE Head(s) + SumSeq(Tail(s))

RECURSIVE CellsUpTo(_, _)
\* every sequence of len nonnegative integers whose sum is at most total
CellsUpTo(len, total) ==
    IF len = 0 THEN {<<>>}
    ELSE UNION { { <<x>> \o s : s \in CellsUpTo(len - 1, total - x) } : x \in 0..total }

Reshape(cells, n, m) == [i \in 1..n |-> [j \in 1..m |-> cells[(i - 1) * m + j]]]

\* rectangular nonnegative matrices, at most MaxPeople x MaxRooms, of total value <= MaxTotal
SmallMatrices ==
    UNION { { Reshape(c, n, m) : c \in CellsUpTo(n * m, MaxTotal) } :
            n \in 1..MaxPeople, m \in 1..MaxRooms }

\* the doctests of find_rent_with_nonnegative_prices
DoctestA == << <<20, 30, 40>>, <<40, 30, 20>>, <<30, 30, 30>> >>
DoctestB == << <<25, 40, 35>>, <<40, 60, 35>>, <<20, 40, 25>> >>
DoctestC == << <<150, 0>>, <<140, 10>> >>
DoctestD == << <<36, 34, 30, 0>>, <<31, 36, 33, 0>>, <<34, 30, 36, 0>>, <<32, 33, 35, 0>> >>
DoctestE == << <<20, 30, 40>>, <<40, 30, 20>>, <<30, 40, 20>> >>

DoctestMatrices == {DoctestA, DoctestB, DoctestC, DoctestD, DoctestE}

DoctestRent(v) ==
    IF v = DoctestB THEN 50
    ELSE IF v \in {DoctestC, DoctestD} THEN 100
    ELSE 90

\* inputs the code does not validate: no people, a negative value, ragged rows
MalformedMatrices ==
    { <<>>,
      << <<-1>> >>,
      << <<0, -1>>, <<-1, 0>> >>,
      << <<2, -1>>, <<1, 1>> >>,
      << <<1, 2>>, <<3>> >>,
      << <<1>>, <<2, 3>> >>,
      << <<1>>, <<5, 0>> >>,
      << <<1, 1>>, <<>> >> }

\* a few larger well-formed inputs: more people than rooms, zero rows, ties
LargerMatrices ==
    { << <<0, 0>>, <<0, 0>>, <<0, 0>> >>,
      << <<1, 0>>, <<1, 0>>, <<0, 2>> >>,
      << <<0, 0, 0>>, <<0, 1, 0>>, <<0, 0, 0>> >>,
      << <<1, 1, 1>>, <<2, 2, 2>>, <<0, 0, 0>> >>,
      << <<3, 1, 0>>, <<3, 0, 1>> >> }

Matrices == SmallMatrices \cup LargerMatrices \cup DoctestMatrices \cup MalformedMatrices

Rents(v) == (0..MaxRent) \cup (IF v \in DoctestMatrices THEN {DoctestRent(v)} ELSE {})

Rectangular(v) == \A i \in 1..Len(v) : Len(v[i]) = Len(v[1])
NonNegative(v) == \A i \in 1..Len(v) : \A j \in 1..Len(v[i]) : v[i][j] >= 0
WellFormed(v) ==
    /\ Len(v) >= 1
    /\ Len(v[1]) >= 1
    /\ Rectangular(v)
    /\ NonNegative(v)

(***************************************************************************)
(* Node labels: f"person {i}" and f"room {j}".  A label is the word and    *)
(* the number; int(x.split()[1]) reads the number back.                    *)
(***************************************************************************)
PersonLabel(person) == <<"person", person>>
RoomLabel(room) == <<"room", room>>
IsPersonLabel(label) == label[1] = "person"
LabelIndex(label) == label[2]

(***************************************************************************)
(* max_sum_valuations: the graph.                                          *)
(***************************************************************************)
\* an undirected edge is the set of its two end nodes
GraphEdges(v) ==
    UNION { { {PersonLabel(i - 1), RoomLabel(j - 1)} : j \in 1..Len(v[i]) } : i \in 1..Len(v) }

PersonOf(e) == CHOOSE u \in e : IsPersonLabel(u)
RoomOf(e) == CHOOSE u \in e : ~IsPersonLabel(u)

\* weight=valuations[person][room] given to G.add_edge
EdgeWeightUnit(v, e) == 1
EdgeWeight(v, e) == v[LabelIndex(PersonOf(e)) + 1][LabelIndex(RoomOf(e)) + 1]

RECURSIVE MatchingWeight(_, _)
MatchingWeight(v, M) ==
    IF M = {} THEN 0
    ELSE LET e == CHOOSE x \in M : TRUE
         IN EdgeWeight(v, e) + MatchingWeight(v, M \ {e})

RECURSIVE MatchingsOf(_)
\* every set of pairwise node-disjoint edges of E
MatchingsOf(E) ==
    IF E = {} THEN {{}}
    ELSE LET e == CHOOSE x \in E : TRUE
             without == MatchingsOf(E \ {e})
             with == { M \cup {e} : M \in MatchingsOf({f \in E : f \cap e = {}}) }
         IN without \cup with

\* nx.max_weight_matching(G): some matching of maximum total weight
max_weight_matching(v) ==
    LET all == MatchingsOf(GraphEdges(v))
        weight == [M \in all |-> MatchingWeight(v, M)]
    IN { M \in all : \A N \in all : weight[N] <= weight[M] }

\* the 2-tuples the matcher returns: each edge in either direction
Orientations(M) ==
    { { <<g[e], CHOOSE w \in e : w # g[e]>> : e \in M } :
      g \in { h \in [M -> UNION M] : \A e \in M : h[e] \in e } }

\* (person, room) if 'person' in person else (room, person)
FixDirection(raw) ==
    { IF IsPersonLabel(t[1]) THEN <<t[1], t[2]>> ELSE <<t[2], t[1]>> : t \in raw }

(***************************************************************************)
(* assign_rooms_for_unallocated_people                                     *)
(***************************************************************************)
RECURSIVE RemoveClaimed(_, _)
\* the list of rooms with every room of claimed removed, order kept
RemoveClaimed(rooms, claimed) ==
    IF rooms = <<>> THEN <<>>
    ELSE IF Head(rooms) \in claimed THEN RemoveClaimed(Tail(rooms), claimed)
    ELSE <<Head(rooms)>> \o RemoveClaimed(Tail(rooms), claimed)

AllRooms(v) == [j \in 1..Len(v[1]) |-> RoomLabel(j - 1)]

AvailableRoomsNoRemoval(fixed_alloc, v) == AllRooms(v)
AvailableRooms(fixed_alloc, v) ==
    RemoveClaimed(AllRooms(v), { t[2] : t \in fixed_alloc })

PickLastRoom(available_rooms) == available_rooms[Len(available_rooms)]
PickRoom(available_rooms) == available_rooms[1]

WarningLine(person) == [text |-> "couldn't be assigned a room", arg |-> <<person>>]

RECURSIVE AssignLoop(_, _, _, _, _)
\* the loop over range(num_people), from person on
AssignLoop(fixed_alloc, allocated_people, log, person, v) ==
    IF person >= Len(v) THEN [fixed_alloc |-> fixed_alloc, log |-> log]
    ELSE IF PersonLabel(person) \in allocated_people
    THEN AssignLoop(fixed_alloc, allocated_people, log, person + 1, v)
    ELSE LET available_rooms == AvailableRooms(fixed_alloc, v)
         IN IF available_rooms # <<>>
            THEN AssignLoop(fixed_alloc \cup {<<PersonLabel(person), PickRoom(available_rooms)>>},
                            allocated_people, log, person + 1, v)
            ELSE AssignLoop(fixed_alloc, allocated_people,
                            Append(log, WarningLine(person)), person + 1, v)

RECURSIVE InsertByPerson(_, _)
\* x placed after every element whose person index is not larger (a stable sort)
InsertByPerson(sorted, x) ==
    IF sorted = <<>> THEN <<x>>
    ELSE IF LabelIndex(Head(sorted)[1]) <= LabelIndex(x[1])
    THEN <<Head(sorted)>> \o InsertByPerson(Tail(sorted), x)
    ELSE <<x>> \o sorted

RECURSIVE SortLoop(_, _)
SortLoop(sorted, rest) ==
    IF rest = <<>> THEN sorted
    ELSE SortLoop(InsertByPerson(sorted, Head(rest)), Tail(rest))

Unsorted(order) == order
\* sorted(fixed_alloc, key=lambda x: int(x[0].split()[1]))
SortedByPerson(order) == SortLoop(<<>>, order)

RECURSIVE Orderings(_)
\* the orders in which iterating over the set S can yield its elements
Orderings(S) ==
    IF S = {} THEN {<<>>}
    ELSE UNION { { <<x>> \o s : s \in Orderings(S \ {x}) } : x \in S }

NoCompletion(fixed_alloc, v) ==
    { [fixed_alloc |-> SortedByPerson(order), log |-> <<>>] : order \in Orderings(fixed_alloc) }
\* the lists assign_rooms_for_unallocated_people can return, with the warnings it logs
assign_rooms_for_unallocated_people(fixed_alloc, v) ==
    LET allocated_people == { t[1] : t \in fixed_alloc }
        done == AssignLoop(fixed_alloc, allocated_people, <<>>, 0, v)
    IN { [fixed_alloc |-> SortedByPerson(order), log |-> done.log] :
         order \in Orderings(done.fixed_alloc) }

\* the outcomes of max_sum_valuations(valuations): the matching found, the list
\* returned, the warnings logged
max_sum_valuations(v) ==
    UNION { UNION { { [alloc |-> M, fixed_alloc |-> r.fixed_alloc, log |-> r.log] :
                      r \in assign_rooms_for_unallocated_people(FixDirection(raw), v) } :
                    raw \in Orientations(M) } :
            M \in max_weight_matching(v) }

(***************************************************************************)
(* find_rent_with_nonnegative_prices: the constraints.  A constraint is    *)
(* sum_j coef[j+1] * price_rooms[j] + const  rel  0  with rel "==" or      *)
(* ">=".                                                                   *)
(***************************************************************************)
BudgetAtMost(num_rooms, r) ==
    [coef |-> [j \in 1..num_rooms |-> -1], const |-> r, rel |-> ">="]
\* sum(price_rooms) == rent
BudgetConstraint(num_rooms, r) ==
    [coef |-> [j \in 1..num_rooms |-> 1], const |-> -r, rel |-> "=="]

\* price >= 0 for price in price_rooms
NonNegativeConstraints(num_rooms) ==
    { [coef |-> [j \in 1..num_rooms |-> IF j = k THEN 1 ELSE 0], const |-> 0, rel |-> ">="] :
      k \in 1..num_rooms }

EnvyConstraintNoOwnValue(v, num_rooms, person_index, room_index, other_room_index) ==
    [coef |-> [j \in 1..num_rooms |->
                 (IF j = other_room_index + 1 THEN 1 ELSE 0)
                 - (IF j = room_index + 1 THEN 1 ELSE 0)],
     const |-> - v[person_index + 1][other_room_index + 1],
     rel |-> ">="]
\* valuations[person][room] - price[room] >= valuations[person][other] - price[other]
EnvyConstraint(v, num_rooms, person_index, room_index, other_room_index) ==
    [coef |-> [j \in 1..num_rooms |->
                 (IF j = other_room_index + 1 THEN 1 ELSE 0)
                 - (IF j = room_index + 1 THEN 1 ELSE 0)],
     const |-> v[person_index + 1][room_index + 1] - v[person_index + 1][other_room_index + 1],
     rel |-> ">="]

\* the (person_index, room_index, other_room_index) the two nested loops visit
EnvyTriples(alloc_list, num_rooms) ==
    { t \in { <<LabelIndex(alloc_list[i][1]), LabelIndex(alloc_list[i][2]), o>> :
              i \in 1..Len(alloc_list), o \in 0..(num_rooms - 1) } : t[3] # t[2] }

EnvyFreeConstraints(v, alloc_list, num_rooms) ==
    { EnvyConstraint(v, num_rooms, t[1], t[2], t[3]) : t \in EnvyTriples(alloc_list, num_rooms) }

\* an index past the end of valuations[person] or of price_rooms while the
\* envy-free constraints are built
RaisesIndexError(v, alloc_list, num_rooms) ==
    \E t \in EnvyTriples(alloc_list, num_rooms) :
        \/ t[2] >= Len(v[t[1] + 1])
        \/ t[2] >= num_rooms
        \/ t[3] >= Len(v[t[1] + 1])

Constraints(v, alloc_list, r) ==
    LET num_rooms == Len(v[1])
    IN {BudgetConstraint(num_rooms, r)}
       \cup NonNegativeConstraints(num_rooms)
       \cup EnvyFreeConstraints(v, alloc_list, num_rooms)

(***************************************************************************)
(* prob.solve(solver=cvxpy.ECOS).  Prices are integers counting 1/den of a *)
(* rent unit, searched in the box lo..hi.  With integer valuations and     *)
(* rent, the program built above has a solution exactly if it has one in   *)
(* multiples of 1/num_rooms, so den = num_rooms decides feasibility.  The  *)
(* doctest rents are solved in whole units, where each doctest program     *)
(* that has a solution has one.                                            *)
(***************************************************************************)
PriceDen(v, r) == IF r <= MaxRent THEN Len(v[1]) ELSE 1
PriceLo(v, r) == -PriceSlack
PriceHi(v, r) == r * PriceDen(v, r) + PriceSlack

RECURSIVE PartialValue(_, _, _)
\* sum of coef[j] * p[j] over the first k rooms
PartialValue(c, p, k) ==
    IF k = 0 THEN 0 ELSE c.coef[k] * p[k] + PartialValue(c, p, k - 1)

RECURSIVE RestMax(_, _, _, _)
\* the largest value the rooms after k can add, prices ranging over lo..hi
RestMax(c, k, lo, hi) ==
    IF k >= Len(c.coef) THEN 0
    ELSE (IF c.coef[k + 1] >= 0 THEN c.coef[k + 1] * hi ELSE c.coef[k + 1] * lo)
         + RestMax(c, k + 1, lo, hi)

RECURSIVE RestMin(_, _, _, _)
RestMin(c, k, lo, hi) ==
    IF k >= Len(c.coef) THEN 0
    ELSE (IF c.coef[k + 1] >= 0 THEN c.coef[k + 1] * lo ELSE c.coef[k + 1] * hi)
         + RestMin(c, k + 1, lo, hi)

\* prices p of the first Len(p) rooms can still be extended to satisfy c;
\* for a full price vector: p satisfies c
Satisfiable(c, p, den, lo, hi) ==
    LET k == Len(p)
        sofar == PartialValue(c, p, k) + c.const * den
    IN /\ sofar + RestMax(c, k, lo, hi) >= 0
       /\ c.rel = "==" => sofar + RestMin(c, k, lo, hi) <= 0

Satisfies(c, p, den) == Satisfiable(c, p, den, 0, 0)

RECURSIVE PartialPoints(_, _, _, _, _)
PartialPoints(cons, k, den, lo, hi) ==
    IF k = 0 THEN {<<>>}
    ELSE { q \in { Append(p, x) : p \in PartialPoints(cons, k - 1, den, lo, hi), x \in lo..hi } :
           \A c \in cons : Satisfiable(c, q, den, lo, hi) }

\* every grid point of the box that satisfies all the constraints
FeasiblePoints(cons, num_rooms, den, lo, hi) == PartialPoints(cons, num_rooms, den, lo, hi)

\* np.round: to the nearest integer, a half to the even neighbour
Round(x, den) ==
    LET q == x \div den
        r == x % den
    IN IF 2 * r < den THEN q
       ELSE IF 2 * r > den THEN q + 1
       ELSE IF q % 2 = 0 THEN q ELSE q + 1

\* what prob.solve can leave behind: a status with the variables' values, or
\* a raised cvxpy.SolverError
SolverOutcomes(cons, num_rooms, den, lo, hi, decides) ==
    LET points == FeasiblePoints(cons, num_rooms, den, lo, hi)
        decided == IF points # {}
                   THEN { [status |-> "optimal", value |-> p, raised |-> "none"] : p \in points }
                   ELSE { [status |-> "infeasible", value |-> <<>>, raised |-> "none"] }
        undecided == { [status |-> IF points # {} THEN "optimal_inaccurate"
                                   ELSE "infeasible_inaccurate",
                        value |-> <<>>, raised |-> "none"],
                       [status |-> "none", value |-> <<>>, raised |-> "SolverError"] }
    IN IF decides THEN decided ELSE decided \cup undecided

AllocationLine(alloc_list) == [text |-> "Allocation:", arg |-> alloc_list]
RoomLine(i, price) == [text |-> "Room rent:", arg |-> <<i, price>>]
InfeasibleLine == [text |-> "Can not find allocation with prices >= 0", arg |-> <<>>]

ReportZeroFilled(solver_status, alloc_list, value, num_rooms, den) ==
    <<AllocationLine(alloc_list)>>
    \o [i \in 1..num_rooms |->
          RoomLine(i - 1, IF solver_status = "optimal" THEN Round(value[i], den) ELSE 0)]
\* the lines printed after prob.solve returns
Report(solver_status, alloc_list, value, num_rooms, den) ==
    IF solver_status = "optimal"
    THEN <<AllocationLine(alloc_list)>>
         \o [i \in 1..num_rooms |-> RoomLine(i - 1, Round(value[i], den))]
    ELSE <<InfeasibleLine>>

\* the outcomes of find_rent_with_nonnegative_prices(valuations, rent)
find_rent_with_nonnegative_prices(v, r, decides) ==
    UNION { IF Len(v) = 0 \/ RaisesIndexError(v, a.fixed_alloc, Len(v[1]))
            THEN { [alloc |-> a.alloc, allocation |-> a.fixed_alloc, stdout |-> a.log,
                    status |-> "none", price_rooms |-> <<>>, raised |-> "IndexError"] }
            ELSE { [alloc |-> a.alloc, allocation |-> a.fixed_alloc,
                    stdout |-> a.log \o (IF s.raised = "none"
                                         THEN Report(s.status, a.fixed_alloc, s.value,
                                                     Len(v[1]), PriceDen(v, r))
                                         ELSE <<>>),
                    status |-> s.status, price_rooms |-> s.value, raised |-> s.raised] :
                   s \in SolverOutcomes(Constraints(v, a.fixed_alloc, r), Len(v[1]),
                                        PriceDen(v, r), PriceLo(v, r), PriceHi(v, r), decides) } :
            a \in max_sum_valuations(v) }

(***************************************************************************)
(* The state machine: one action per call, on the same valuations.  A      *)
(* behaviour is one call of find_rent_with_nonnegative_prices or up to    *)
(* two calls of max_sum_valuations; no call reads what another left        *)
(* behind.  first remembers the first run of max_sum_valuations, again     *)
(* tells that the last call was not the first.                             *)
(***************************************************************************)
NoRun == [alloc |-> {}, allocation |-> <<>>]

Init ==
    /\ valuations \in Matrices
    /\ rent = 0
    /\ op = "none"
    /\ alloc = {}
    /\ allocation = <<>>
    /\ stdout = <<>>
    /\ status = "none"
    /\ price_rooms = <<>>
    /\ raised = "none"
    /\ again = FALSE
    /\ first = NoRun

\* max_sum_valuations on every input, computed once
MaxSumOutcomes == [v \in Matrices |-> max_sum_valuations(v)]

MaxSumValuations ==
    /\ op # "find_rent_with_nonnegative_prices"
    /\ ~again
    /\ \E a \in MaxSumOutcomes[valuations] :
        /\ op' = "max_sum_valuations"
        /\ alloc' = a.alloc
        /\ allocation' = a.fixed_alloc
        /\ stdout' = a.log
        /\ first' = IF op = "none" THEN [alloc |-> a.alloc, allocation |-> a.fixed_alloc] ELSE first
    /\ again' = (op # "none")
    /\ rent' = 0
    /\ status' = "none"
    /\ price_rooms' = <<>>
    /\ raised' = "none"
    /\ UNCHANGED valuations

FindRentCall(decides) ==
    /\ op = "none"
    /\ \E r \in Rents(valuations) :
        \E f \in find_rent_with_nonnegative_prices(valuations, r, decides) :
            /\ rent' = r
            /\ op' = "find_rent_with_nonnegative_prices"
            /\ alloc' = f.alloc
            /\ allocation' = f.allocation
            /\ stdout' = f.stdout
            /\ status' = f.status
            /\ price_rooms' = f.price_rooms
            /\ raised' = f.raised
            /\ first' = [alloc |-> f.alloc, allocation |-> f.allocation]
    /\ again' = FALSE
    /\ UNCHANGED valuations

\* the solver decides the program: optimal or infeasible
FindRentWithNonnegativePrices == FindRentCall(TRUE)

\* the solver may also end inaccurate or raise
FindRentSolverUndecided == FindRentCall(FALSE)

Next == MaxSumValuations \/ FindRentWithNonnegativePrices

Spec == Init /\ [][Next]_vars

NextAnySolver == MaxSumValuations \/ FindRentSolverUndecided

SpecAnySolver == Init /\ [][NextAnySolver]_vars

(***************************************************************************)
(* What the claims speak of.                                               *)
(***************************************************************************)
Called == op # "none"
Priced == op = "find_rent_with_nonnegative_prices"

\* the pairs of the list returned, and the pairs the matcher had found
Pairs == { allocation[i] : i \in 1..Len(allocation) }
Matched == { <<PersonOf(e), RoomOf(e)>> : e \in alloc }
Added == Pairs \ Matched

PeopleOf(v) == { PersonLabel(i - 1) : i \in 1..Len(v) }
Unmatched == PeopleOf(valuations) \ { t[1] : t \in Matched }

Val(person, room) == valuations[LabelIndex(person) + 1][LabelIndex(room) + 1]

RoomLines == { i \in 1..Len(stdout) : stdout[i].text = "Room rent:" }
PricesPrinted == RoomLines # {}
InfeasibleReported == \E i \in 1..Len(stdout) : stdout[i] = InfeasibleLine

\* the price printed for room j
Printed(j) ==
    stdout[CHOOSE i \in RoomLines : stdout[i].arg[1] = j].arg[2]
PrintedVector == [j \in 1..Len(valuations[1]) |-> Printed(j - 1)]

\* the envy-freeness program of the specification, for prices p counted in
\* 1/den of a rent unit
BudgetMet(p, den) == SumSeq(p) = rent * den
NonNegativePrices(p) == \A j \in 1..Len(p) : p[j] >= 0
NoEnvy(p, den) ==
    \A t \in Pairs : \A j \in 1..Len(p) :
        j # LabelIndex(t[2]) + 1 =>
            Val(t[1], t[2]) * den - p[LabelIndex(t[2]) + 1]
                >= valuations[LabelIndex(t[1]) + 1][j] * den - p[j]
FeasiblePrices(p, den) == BudgetMet(p, den) /\ NonNegativePrices(p) /\ NoEnvy(p, den)

\* rooms 1..Len(p) priced by p: no pair of the allocation among them envies
NoEnvySoFar(p, den) ==
    \A t \in Pairs : \A j \in 1..Len(p) :
        (LabelIndex(t[2]) + 1 <= Len(p) /\ j # LabelIndex(t[2]) + 1) =>
            Val(t[1], t[2]) * den - p[LabelIndex(t[2]) + 1]
                >= valuations[LabelIndex(t[1]) + 1][j] * den - p[j]

RECURSIVE ExtendsToFeasible(_, _)
\* some nonnegative price vector that starts with p is feasible
ExtendsToFeasible(p, den) ==
    LET num_rooms == Len(valuations[1])
        left == rent * den - SumSeq(p)
    IN IF Len(p) = num_rooms THEN FeasiblePrices(p, den)
       ELSE IF Len(p) = num_rooms - 1
       THEN left >= 0 /\ FeasiblePrices(Append(p, left), den)
       ELSE \E x \in 0..left :
               NoEnvySoFar(Append(p, x), den) /\ ExtendsToFeasible(Append(p, x), den)

ProgramFeasible == ExtendsToFeasible(<<>>, PriceDen(valuations, rent))

Welfare == SumSeq([i \in 1..Len(allocation) |-> Val(allocation[i][1], allocation[i][2])])

\* every way to give each person a room of their own
Assignments(v) ==
    { f \in [1..Len(v) -> 1..Len(v[1])] : \A i, k \in 1..Len(v) : i # k => f[i] # f[k] }
AssignmentWelfare(v, f) == SumSeq([i \in 1..Len(v) |-> v[i][f[i]]])

ConstantRows(v) == \A i \in 1..Len(v) : \A j \in 1..Len(v[i]) : v[i][j] = v[i][1]

\* the rooms of valuations[0] that no matched pair and no pair added for a
\* person before this one holds
FreeFor(person) ==
    { j \in 0..(Len(valuations[1]) - 1) :
        \A t \in Matched \cup { a \in Added : LabelIndex(a[1]) < LabelIndex(person) } :
            t[2] # RoomLabel(j) }
LowestFree(person) == CHOOSE j \in FreeFor(person) : \A k \in FreeFor(person) : j <= k

Warned(person) ==
    \E i \in 1..Len(stdout) : stdout[i] = WarningLine(LabelIndex(person))

(***************************************************************************)
(* C1: with at least as many rooms as people, the list max_sum_valuations  *)
(* returns holds every person 0..n-1 exactly once, whichever matching the  *)
(* matcher returned.                                                       *)
(***************************************************************************)
C1_EveryAgentOnce ==
    (Called /\ WellFormed(valuations) /\ Len(valuations[1]) >= Len(valuations)) =>
        /\ Len(allocation) = Len(valuations)
        /\ { t[1] : t \in Pairs } = PeopleOf(valuations)

C1_Witness ==
    /\ Called /\ WellFormed(valuations) /\ Len(valuations[1]) >= Len(valuations)
    /\ Unmatched # {}
    /\ Len(allocation) = Len(valuations)

(***************************************************************************)
(* C2: no two pairs of the returned allocation hold the same room, for any *)
(* numbers of people and rooms.                                            *)
(***************************************************************************)
C2_NoRoomTwice ==
    (Called /\ WellFormed(valuations)) =>
        \A i, k \in 1..Len(allocation) : i # k => allocation[i][2] # allocation[k][2]

C2_Witness ==
    /\ Called /\ WellFormed(valuations)
    /\ Len(valuations) > Len(valuations[1])
    /\ Added # {}
    /\ Len(allocation) >= 2

(***************************************************************************)
(* C3 as claimed: when the solver ends optimal, the price vector the       *)
(* function yields (the printed one) sums to rent, is nonnegative and      *)
(* leaves no allocated person envious.                                     *)
(***************************************************************************)
C3_PrintedVectorFeasible ==
    (Priced /\ status = "optimal") => FeasiblePrices(PrintedVector, 1)

(***************************************************************************)
(* C3 amended: when the solver ends optimal, the solver's values sum to    *)
(* rent, are nonnegative and leave no allocated person envious; each       *)
(* printed price is the solver's value rounded to a nearest integer.       *)
(***************************************************************************)
C3_SolverVectorFeasible ==
    (Priced /\ status = "optimal") =>
        LET den == PriceDen(valuations, rent)
        IN /\ Len(price_rooms) = Len(valuations[1])
           /\ FeasiblePrices(price_rooms, den)
           /\ \A j \in 1..Len(price_rooms) :
                /\ 2 * (PrintedVector[j] * den - price_rooms[j]) <= den
                /\ 2 * (price_rooms[j] - PrintedVector[j] * den) <= den

C3_Witness ==
    /\ Priced /\ status = "optimal"
    /\ Len(allocation) >= 2
    /\ SumSeq(PrintedVector) # rent
    /\ \E t \in Pairs : \E j \in 1..Len(price_rooms) : Val(t[1], t[2]) # valuations[LabelIndex(t[1]) + 1][j]

(***************************************************************************)
(* C4: when no nonnegative price vector summing to rent is envy-free for   *)
(* the computed allocation, the function prints the infeasibility line and *)
(* no price of any room; so it does for the doctests [[150,0],[140,10]]    *)
(* and [[36,34,30,0],...] with rent 100.                                   *)
(***************************************************************************)
C4_InfeasibleReported ==
    /\ (Priced /\ raised = "none") =>
          \/ (InfeasibleReported /\ ~PricesPrinted)
          \/ ProgramFeasible
    /\ (Priced /\ valuations \in {DoctestC, DoctestD} /\ rent = 100) =>
          (InfeasibleReported /\ ~PricesPrinted)

C4_Witness ==
    /\ Priced /\ valuations = DoctestD /\ rent = 100
    /\ InfeasibleReported
    /\ Cardinality(alloc) = 3

C6_WelfareMaximal ==
    (Called /\ WellFormed(valuations) /\ Len(valuations) <= Len(valuations[1])) =>
        /\ \A f \in Assignments(valuations) : AssignmentWelfare(valuations, f) <= Welfare
        /\ \E f \in Assignments(valuations) : AssignmentWelfare(valuations, f) = Welfare

C6_Witness ==
    /\ Called /\ WellFormed(valuations) /\ Len(valuations) <= Len(valuations[1])
    /\ Added # {}
    /\ Welfare > 0
    /\ \E f \in Assignments(valuations) : AssignmentWelfare(valuations, f) < Welfare

(***************************************************************************)
(* C7: malformed input (no people, no rooms, ragged rows, a negative       *)
(* value) is rejected before matching: the call yields no allocation and   *)
(* prints no allocation, price or infeasibility line.                      *)
(***************************************************************************)
C7_MalformedRejected ==
    (Called /\ ~WellFormed(valuations)) =>
        /\ allocation = <<>>
        /\ \A i \in 1..Len(stdout) :
              stdout[i].text \notin {"Allocation:", "Room rent:", InfeasibleLine.text}

(***************************************************************************)
(* C8: a solver status that is neither optimal nor infeasible is reported  *)
(* differently from infeasibility.                                         *)
(***************************************************************************)
C8_UndecidedReportedApart ==
    (Priced /\ raised = "none" /\ status \notin {"optimal", "infeasible"}) =>
        ~InfeasibleReported

(***************************************************************************)
(* C9: with as many people as rooms and every row constant, the pricing is *)
(* found feasible for every rent and allocation, and rent/m for every room *)
(* satisfies every constraint the function builds.                         *)
(***************************************************************************)
C9_UniformPricesFeasible ==
    (Priced /\ WellFormed(valuations) /\ Len(valuations) = Len(valuations[1])
        /\ ConstantRows(valuations)) =>
        LET num_rooms == Len(valuations[1])
            den == PriceDen(valuations, rent)
            uniform == [j \in 1..num_rooms |-> (rent * den) \div num_rooms]
        IN /\ status = "optimal"
           /\ PricesPrinted
           /\ (rent * den) % num_rooms = 0
           /\ \A c \in Constraints(valuations, allocation, rent) : Satisfies(c, uniform, den)

C9_Witness ==
    /\ Priced /\ WellFormed(valuations) /\ ConstantRows(valuations)
    /\ Len(valuations) = 2 /\ Len(valuations[1]) = 2
    /\ valuations[1][1] # valuations[2][1]
    /\ rent = 1
    /\ price_rooms = <<1, 1>>

(***************************************************************************)
(* C10: the completion keeps every matched pair, visits the unmatched      *)
(* people in ascending index, gives each the lowest room held by no pair   *)
(* so far, leaves a person without a pair (and raises nothing) when no     *)
(* room remains; matching {0->0, 1->1, 2->2} on the 4x4 doctest gives      *)
(* person 3 room 3.                                                        *)
(***************************************************************************)
C10_LowestFreeRoom ==
    Called =>
        /\ Matched \subseteq Pairs
        /\ \A t \in Added : t[1] \in Unmatched
        /\ \A person \in Unmatched :
              IF FreeFor(person) # {}
              THEN { t \in Pairs : t[1] = person }
                     = { <<person, RoomLabel(LowestFree(person))>> }
              ELSE { t \in Pairs : t[1] = person } = {} /\ Warned(person)
        /\ \A i \in 1..(Len(allocation) - 1) :
              LabelIndex(allocation[i][1]) <= LabelIndex(allocation[i + 1][1])
        /\ op = "max_sum_valuations" => raised = "none"
        /\ (valuations = DoctestD /\ Cardinality(alloc) = 3) =>
              <<PersonLabel(3), RoomLabel(3)>> \in Added

C10_Witness ==
    /\ op = "max_sum_valuations"
    /\ Cardinality(Added) >= 1
    /\ \E person \in Unmatched : FreeFor(person) = {} /\ Warned(person)
    /\ \E t \in Added : LabelIndex(t[2]) > 0
    /\ Matched # {}

====
